---- MODULE Spec2Model ----
(***************************************************************************)
(* Model of the fishscanner repository.                                    *)
(*                                                                         *)
(*   engine/simplescanner.py  SimpleScanner.scan, .remove_background       *)
(*   main_ocean.py            scan_from_frame, load_fish_from_files,       *)
(*                            PhotoHandler.on_created, update_scene,       *)
(*                            process_special_key, animate                 *)
(*   ocean/drawingfish.py     DrawingFish                                  *)
(*                                                                         *)
(* The specifications share the module's variables:                        *)
(*   SpecPipeline  scan_from_frame on one frame, the detector's output     *)
(*                 drawn from Detections;                                  *)
(*   SpecAlpha     remove_background on one canonical 800x600 frame, the   *)
(*                 thresholded image drawn from BinaryImages;              *)
(*   Spec          the application: the startup loader and the watcher;    *)
(*   SpecScene     Spec with the arrow keys of process_special_key;        *)
(*   SpecOcean     animate, tick after tick, from the states main is in    *)
(*                 when glutMainLoop starts;                               *)
(*   SpecGoAway    animate under the fairness of its timer, started with   *)
(*                 more fish than fish_limit.                              *)
(* Calls into cv2 / PIL are modelled by what the library returns; where    *)
(* the library's answer is not fixed by its input the model chooses among  *)
(* the possible answers.  engine/renderer.py is not among the sources:     *)
(* Renderer_animate stands for its animate method.                         *)
(***************************************************************************)
EXTENDS Integers, Sequences, FiniteSets, TLC

VARIABLES
    scanner,            \* the SimpleScanner object's fields
    detection,          \* detectMarkers' output for the frame in scan_from_frame
    pc,                 \* position inside scan_from_frame
    scan_ret,           \* what scanner.scan did (returned image or raised exception)
    trace,              \* scanner methods scan_from_frame has called, in order
    ret,                \* scan_from_frame's outcome
    rb_pc,              \* position of the remove_background call: "idle", "call", "returned"
    rb_frame,           \* remove_background's frame after cv2.resize, and its threshold image
    rb_steps,           \* the steps remove_background has run, in order
    rb_out,             \* the image remove_background returned
    main_pc,            \* main(): "loading" (in load_fish_from_files), "running", "aborted"
    files,              \* glob('./photos/*.jpg') + glob('./photos/*.heic')
    ld_i,               \* index in files of the file the loader's for loop is at
    ld_log,             \* what the loader did with each file so far
    drawings_list,      \* sprites to draw
    fish_queue,         \* fish in the order they were added
    scanned_fish_queue, \* scans handed from the watcher thread to animate
    watcher_pc,         \* observer thread: "not_started", "watching", "dead"
    processed_files,    \* PhotoHandler.processed_files
    ev_log,             \* what on_created did with each event so far
    heap,               \* the fields of every DrawingFish object made, by object id
    rng,                \* position of np.random in its stream of draws
    animate_pc,         \* "idle" until animate has returned once, then "returned"
    away_log,           \* ids of the fish go_away was called on, in call order
    current_scene_index,\* current_scene_index[0]
    key_log             \* special keys pressed, each with the scene index before it

pipeVars == <<detection, pc, scan_ret, trace, ret>>
alphaVars == <<rb_pc, rb_frame, rb_steps, rb_out>>
oceanVars == <<heap, rng, animate_pc, away_log>>
sceneVars == <<current_scene_index, key_log>>
appVars == <<main_pc, files, ld_i, ld_log, drawings_list, fish_queue,
             scanned_fish_queue, watcher_pc, processed_files, ev_log,
             oceanVars, sceneVars>>
vars == <<scanner, pipeVars, alphaVars, appVars>>

None == "None"

----------------------------------------------------------------------------
(* Bounds of the model *)

\* longest detector output (number of marker instances in one frame)
MaxMarkers == 5

\* detector corners are float32; the model keeps them in 1/SubPix pixel units
SubPix == 2

\* most files in ./photos at startup
MaxFiles == 2

\* most file-system events the watcher receives
MaxEvents == 2

\* most special keys pressed
MaxKeys == 2

\* most photos load_fish_from_files loaded before the first animate tick
MaxLoaded == 12

\* most scans the watcher queued before the first animate tick
MaxQueued == 1

----------------------------------------------------------------------------
(* SimpleScanner.__init__ *)

SimpleScanner_init ==
    [ marker_top_left_id     |-> 3,
      marker_top_right_id    |-> 1,
      marker_bottom_left_id  |-> 4,
      marker_bottom_right_id |-> 2,
      target_w               |-> 800,
      target_h               |-> 600 ]

----------------------------------------------------------------------------
(* The detector's output: a sequence of markers, each an id of the 4x4      *)
(* dictionary and four corners in the detector's order (clockwise from the  *)
(* marker's own top-left corner).  Duplicated ids are possible.             *)

QuadAt(x, y, s) == << <<x, y>>, <<x + s, y>>, <<x + s, y + s>>, <<x, y + s>> >>

\* two marker outlines, side 5 sub-pixel units, side by side
Quads == { QuadAt(0, 0, 5), QuadAt(5, 0, 5) }

\* ids the detector reports in the model: the four required ones and one other
DetectedIds == {0, 1, 2, 3, 4}

Markers ==
    { [id |-> i, corners |-> q] : i \in DetectedIds \ {0}, q \in Quads }
    \cup { [id |-> 0, corners |-> QuadAt(0, 0, 5)] }

RECURSIVE SeqsUpTo(_, _)
SeqsUpTo(S, n) ==
    IF n = 0 THEN { <<>> }
    ELSE LET shorter == SeqsUpTo(S, n - 1)
         IN  shorter \cup { Append(s, e) : s \in { t \in shorter : Len(t) = n - 1 }, e \in S }

Detections == SeqsUpTo(Markers, MaxMarkers)

----------------------------------------------------------------------------
(* SimpleScanner.scan *)

\* int(x) of a non-negative float coordinate
IntOf(c) == c \div SubPix

\* int(np.sqrt(n)) for an integer n >= 0
IntSqrt(n) == CHOOSE r \in 0..n : r * r <= n /\ n < (r + 1) * (r + 1)

NoCorners ==
    [top_left |-> None, top_right |-> None, bottom_right |-> None, bottom_left |-> None]

\* body of the for loop: one (marker_corner, marker_id) pair
AssignCorner_swapped(self, found, marker) ==
    LET corners == marker.corners
    IN  IF marker.id = self.marker_top_left_id
          THEN [found EXCEPT !.top_left = corners[1]]
        ELSE IF marker.id = self.marker_top_right_id
          THEN [found EXCEPT !.top_right = corners[2]]
        ELSE IF marker.id = self.marker_bottom_left_id
          THEN [found EXCEPT !.bottom_right = corners[3]]
        ELSE IF marker.id = self.marker_bottom_right_id
          THEN [found EXCEPT !.bottom_left = corners[4]]
        ELSE found

AssignCorner(self, found, marker) ==
    LET corners == marker.corners
    IN  IF marker.id = self.marker_top_left_id
          THEN [found EXCEPT !.top_left = corners[1]]
        ELSE IF marker.id = self.marker_top_right_id
          THEN [found EXCEPT !.top_right = corners[2]]
        ELSE IF marker.id = self.marker_bottom_right_id
          THEN [found EXCEPT !.bottom_right = corners[3]]
        ELSE IF marker.id = self.marker_bottom_left_id
          THEN [found EXCEPT !.bottom_left = corners[4]]
        ELSE found

\* the for loop over zip(corners, ids), in the detector's order
RECURSIVE ScanMarkers(_, _, _)
ScanMarkers(self, det, found) ==
    IF det = <<>> THEN found
    ELSE ScanMarkers(self, Tail(det), AssignCorner(self, found, Head(det)))

\* the test that raises ValueError
MarkersMissing_all(found) ==
    /\ found.top_left = None
    /\ found.top_right = None
    /\ found.bottom_right = None
    /\ found.bottom_left = None

MarkersMissing(found) ==
    \/ found.top_left = None
    \/ found.top_right = None
    \/ found.bottom_right = None
    \/ found.bottom_left = None

IntPoint(p) == <<IntOf(p[1]), IntOf(p[2])>>

SqDist(p, q) == (p[1] - q[1]) * (p[1] - q[1]) + (p[2] - q[2]) * (p[2] - q[2])

\* maxWidth, maxHeight of the destination rectangle
MaxWidth(tl, tr, br, bl) ==
    LET widthA == IntSqrt(SqDist(br, bl))
        widthB == IntSqrt(SqDist(tr, tl))
    IN  IF widthA >= widthB THEN widthA ELSE widthB

MaxHeight(tl, tr, br, bl) ==
    LET heightA == IntSqrt(SqDist(tr, br))
        heightB == IntSqrt(SqDist(tl, bl))
    IN  IF heightA >= heightB THEN heightA ELSE heightB

\* cross product (b - a) x (c - a): zero when a, b, c are collinear or coincide
Cross(a, b, c) == (b[1] - a[1]) * (c[2] - a[2]) - (b[2] - a[2]) * (c[1] - a[1])

\* rect = (tl, tr, br, bl) has three collinear (or coinciding) points, so the
\* linear system of cv2.getPerspectiveTransform is singular
Degenerate(rect) ==
    \E i, j, k \in 1..4 :
        /\ i < j /\ j < k
        /\ Cross(rect[i], rect[j], rect[k]) = 0

\* What cv2.getPerspectiveTransform + cv2.warpPerspective can do.  On a
\* regular system they return the warped image.  On a singular one the
\* library's documentation fixes nothing: it returns an image computed from a
\* meaningless matrix, or raises cv2.error.
CvOutcomes(rect, w, h) ==
    IF Degenerate(rect) \/ w <= 1 \/ h <= 1 THEN {"image", "cv2.error"} ELSE {"image"}

\* no image (the call raised, or has not been made)
NoImage == [size |-> <<>>, valid |-> FALSE]

\* the size of the photo given to scan: the model's photos are 8 x 8 pixels
FrameSize == <<8, 8>>

\* scan has not been called
NotScanned == [raised |-> "pending", msg |-> "", rect |-> <<>>, size |-> <<>>, warped |-> NoImage]

\* scan(self, frame), given the detector's output for the frame and the
\* library's answer `cv`
scan(self, det, cv) ==
    LET found == IF Len(det) > 0 THEN ScanMarkers(self, det, NoCorners) ELSE NoCorners
    IN  IF MarkersMissing(found)
        THEN [raised |-> "ValueError", msg |-> "Markers in the image are not found",
              rect |-> <<>>, size |-> <<>>, warped |-> NoImage]
        ELSE IF \E r \in DOMAIN found : found[r] = None
        \* int(None[0]): subscripting None
        THEN [raised |-> "TypeError", msg |-> "'NoneType' object is not subscriptable",
              rect |-> <<>>, size |-> <<>>, warped |-> NoImage]
        ELSE
        LET tr == IntPoint(found.top_right)
            br == IntPoint(found.bottom_right)
            bl == IntPoint(found.bottom_left)
            tl == IntPoint(found.top_left)
            maxWidth  == MaxWidth(tl, tr, br, bl)
            maxHeight == MaxHeight(tl, tr, br, bl)
            rect == <<tl, tr, br, bl>>
        IN  IF cv = "cv2.error"
            THEN [raised |-> "cv2.error", msg |-> "cv2.error",
                  rect |-> rect, size |-> <<maxWidth, maxHeight>>, warped |-> NoImage]
            ELSE [raised |-> "none", msg |-> "",
                  rect |-> rect, size |-> <<maxWidth, maxHeight>>,
                  \* warpPerspective allocates dsize, or the source's size when
                  \* dsize is empty
                  warped |-> [size  |-> IF maxWidth <= 0 \/ maxHeight <= 0
                                        THEN FrameSize ELSE <<maxWidth, maxHeight>>,
                              valid |-> ~Degenerate(rect)]]

\* the library answers possible for this detection
ScanCv(self, det) ==
    LET s == scan(self, det, "image")
    IN  IF s.raised = "none" THEN CvOutcomes(s.rect, s.size[1], s.size[2]) ELSE {"image"}

\* the scanner's fields when scan returns or raises: scan reads self.detector
\* and the four marker ids, and assigns to local names only
SelfAfterScan_keeps_size(self, s) ==
    IF s.size = <<>> THEN self
    ELSE [self EXCEPT !.target_w = s.size[1], !.target_h = s.size[2]]

SelfAfterScan(self, s) == self

----------------------------------------------------------------------------
(* SimpleScanner.remove_background                                          *)
(*                                                                          *)
(* The frame is the canonical target_w x target_h image that cv2.resize     *)
(* returns.  `binary`, the output of cv2.adaptiveThreshold, is given by its *)
(* connected regions: solid rectangles [x0, y0, x1, y1] (inclusive) that do *)
(* not touch each other, so cv2.findContours returns one external contour   *)
(* per rectangle.  The returned image is evaluated at the pixels of Probes; *)
(* every operation of the function is local, and each probe's value is      *)
(* computed over the window of pixels it depends on.                        *)

Rect(x0, y0, x1, y1) == [x0 |-> x0, y0 |-> y0, x1 |-> x1, y1 |-> y1]

InRect(p, r) == r.x0 <= p[1] /\ p[1] <= r.x1 /\ r.y0 <= p[2] /\ p[2] <= r.y1

\* two regions are separate components: at least one background pixel between
Separated(r, t) ==
    \/ r.x1 + 1 < t.x0 \/ t.x1 + 1 < r.x0
    \/ r.y1 + 1 < t.y0 \/ t.y1 + 1 < r.y0

\* candidate regions of the thresholded image
Regions ==
    { Rect(300, 200, 499, 399),     \* a 200 x 200 square centred at (400, 300)
      Rect(600, 300, 603, 302),     \* a small stroke
      Rect(0, 0, 109, 109),         \* the whole top-left marker footprint
      Rect(700, 500, 700, 500),     \* a single pixel
      Rect(0, 0, 799, 599) }        \* the whole frame

BinaryImages ==
    { S \in SUBSET Regions : \A r, t \in S : r # t => Separated(r, t) }

\* RGB colours of the frame: inks (black, red) and papers (white, red)
Inks == { <<0, 0, 0>>, <<200, 30, 30>> }
Papers == { <<255, 255, 255>>, <<200, 30, 30>> }

Frames ==
    { [binary |-> b, ink |-> i, paper |-> c] : b \in BinaryImages, i \in Inks, c \in Papers }

\* colour of the resized frame at pixel p
FrameColour(f, p) == IF \E r \in f.binary : InRect(p, r) THEN f.ink ELSE f.paper

\* pixels at which the returned image is evaluated
Probes ==
    { <<400, 300>>,     \* centre of the canvas
      <<297, 300>>,     \* three pixels left of the centred square
      <<17, 17>>,       \* top-left footprint, between padding and padding + gradient
      <<55, 55>>,       \* centre of the top-left footprint
      <<111, 50>>,      \* two pixels right of the top-left footprint
      <<601, 301>>,     \* inside the small stroke
      <<700, 500>>,     \* the single-pixel region
      <<799, 599>> }    \* last pixel of the canvas

Max(S) == CHOOSE v \in S : \A u \in S : u <= v
Min(S) == CHOOSE v \in S : \A u \in S : v <= u

\* the pixels of the canvas within distance r of p (square window)
Lo(a) == IF a < 0 THEN 0 ELSE a
Hi(a, n) == IF a > n - 1 THEN n - 1 ELSE a

Window(self, p, r) ==
    (Lo(p[1] - r) .. Hi(p[1] + r, self.target_w)) \X (Lo(p[2] - r) .. Hi(p[2] + r, self.target_h))

\* cv2.dilate / cv2.erode with a (2k+1) x (2k+1) kernel of ones, on the
\* pixels of D; pixels outside the image do not take part
Dilate(self, img, k, D) == [p \in D |-> Max({ img[q] : q \in Window(self, p, k) })]
Erode(self, img, k, D)  == [p \in D |-> Min({ img[q] : q \in Window(self, p, k) })]

\* cv2.contourArea of the contour of a solid rectangle
ContourArea(r) == (r.x1 - r.x0) * (r.y1 - r.y0)

\* max(contours, key=cv2.contourArea): a contour of largest area; among equal
\* areas the first in cv2.findContours' order, which the model leaves open
LargestContours_all(contours) == contours

LargestContours(contours) ==
    { c \in contours : \A d \in contours : ContourArea(d) <= ContourArea(c) }

\* alpha = np.zeros_like(gray)
AlphaZeros_ones(p) == 255

AlphaZeros(p) == 0

\* cv2.drawContours(alpha, [largest_contour], -1, 255, -1)
DrawContour(largest, p) == IF InRect(p, largest) THEN 255 ELSE AlphaZeros(p)

\* alpha after MORPH_CLOSE (3x3) and dilate (3x3, iterations=2), on Window(p, 2)
CleanMask(self, largest, p) ==
    LET drawn   == [q \in Window(self, p, 6) |-> DrawContour(largest, q)]
        closedD == Dilate(self, drawn, 1, Window(self, p, 5))
        closed  == Erode(self, closedD, 1, Window(self, p, 4))
        dil1    == Dilate(self, closed, 1, Window(self, p, 3))
    IN  Dilate(self, dil1, 1, Window(self, p, 2))

\* gradient_mask = morphologyEx(alpha, MORPH_GRADIENT, 5x5) at p
GradientAt(self, mask, p) ==
    Dilate(self, mask, 2, {p})[p] - Erode(self, mask, 2, {p})[p]

marker_size == 110
padding == 15
gradient_width == 5

\* mask before the blur: 255, the outer rectangle 128, the inner rectangle 0
\* (cv2.rectangle fills both corner points)
MarkerStencil(x, y, w, h, q) ==
    IF /\ x + padding + gradient_width <= q[1]
       /\ q[1] <= x + w - padding - gradient_width
       /\ y + padding + gradient_width <= q[2]
       /\ q[2] <= y + h - padding - gradient_width
    THEN 0
    ELSE IF /\ x + padding <= q[1] /\ q[1] <= x + w - padding
            /\ y + padding <= q[2] /\ q[2] <= y + h - padding
    THEN 128
    ELSE 255

\* BORDER_REFLECT_101 index
Reflect(i, n) == IF i < 0 THEN -i ELSE IF i > n - 1 THEN 2 * (n - 1) - i ELSE i

\* the 5-tap kernel of cv2.GaussianBlur(mask, (5,5), 0), times 16
GaussTap(d) == CASE d = 0 -> 6 [] d \in {-1, 1} -> 4 [] d \in {-2, 2} -> 1

\* the sum of f over S, added to acc
RECURSIVE SumOver(_, _, _)
SumOver(S, f, acc) ==
    IF S = {} THEN acc
    ELSE LET e == CHOOSE e \in S : TRUE IN SumOver(S \ {e}, f, acc + f[e])

\* create_marker_mask(x, y, w, h) at pixel p
create_marker_mask(self, x, y, w, h, p) ==
    LET Term == [d \in (-2..2) \X (-2..2) |->
            GaussTap(d[1]) * GaussTap(d[2])
            * MarkerStencil(x, y, w, h, << Reflect(p[1] + d[1], self.target_w),
                                           Reflect(p[2] + d[2], self.target_h) >>)]
        total == SumOver((-2..2) \X (-2..2), Term, 0)
    IN  (total + 128) \div 256

marker_positions(self) ==
    { <<0, 0>>,
      <<self.target_w - marker_size, 0>>,
      <<self.target_w - marker_size, self.target_h - marker_size>>,
      <<0, self.target_h - marker_size>> }

\* combined_mask: cv2.min over the four marker masks, from 255
CombinedMask(self, p) ==
    Min({255} \cup { create_marker_mask(self, m[1], m[2], marker_size, marker_size, p)
                     : m \in marker_positions(self) })

\* cv2.multiply(alpha, combined_mask, scale=1/255): rounded, saturated to 8 bits
Multiply(a, m) == Min({255, (2 * a * m + 255) \div 510})

\* cv2.bitwise_and on 8-bit values
RECURSIVE BitAnd(_, _)
BitAnd(a, b) ==
    IF a = 0 \/ b = 0 THEN 0
    ELSE 2 * BitAnd(a \div 2, b \div 2) + (IF a % 2 = 1 /\ b % 2 = 1 THEN 1 ELSE 0)

\* cv2.add on 8-bit values: saturating
AddSat(a, b) == Min({255, a + b})

\* cv2.threshold(alpha, 127, 255, cv2.THRESH_BINARY)
Threshold_none(v) == v

Threshold(v) == IF v > 127 THEN 255 ELSE 0

\* the `if contours:` branch at pixel p, from the chosen largest contour
AlphaWithContour(self, largest, p) ==
    LET mask          == CleanMask(self, largest, p)
        gradient_mask == GradientAt(self, mask, p)
        attenuated    == Multiply(mask[p], CombinedMask(self, p))
        edge_preserve == BitAnd(attenuated, gradient_mask)
    IN  Threshold(AddSat(attenuated, edge_preserve))

\* alpha at pixel p when remove_background reaches "Create RGBA image"
AlphaAt(self, contours, largest, p) ==
    IF contours # {} THEN AlphaWithContour(self, largest, p) ELSE AlphaZeros(p)

\* filtered_frame[alpha == 0] = [0, 0, 0, 0]
ClearTransparent_skip(px) == px

ClearTransparent(px) == IF px[4] = 0 THEN <<0, 0, 0, 0>> ELSE px

\* cv2.cvtColor(frame, COLOR_RGB2RGBA), then the three assignments through
\* the alpha mask, at one pixel
Compose(colour, alpha) ==
    LET rgba     == <<colour[1], colour[2], colour[3], 255>>
        withA    == [rgba EXCEPT ![4] = alpha]
        cleared  == ClearTransparent(withA)
    IN  IF alpha = 255 THEN [cleared EXCEPT ![4] = 255] ELSE cleared

\* the steps of remove_background, in the order the function runs them
StepsRun(contours) ==
    <<"resize", "gray", "adaptiveThreshold", "findContours", "zeros_like">>
    \o (IF contours # {}
        THEN <<"max", "drawContours", "close", "dilate", "gradient",
               "marker_masks", "multiply", "edge_preserve", "threshold">>
        ELSE <<>>)
    \o <<"cvtColor", "set_alpha", "clear_transparent", "set_opaque">>

\* remove_background(self, frame): the returned image at the probes
remove_background(self, f, largest) ==
    [p \in Probes |-> Compose(FrameColour(f, p), AlphaAt(self, f.binary, largest, p))]

\* the scanner's fields when remove_background returns: it reads target_w and
\* target_h, and `frame = cv2.resize(frame, ...)` rebinds the local name
SelfAfterRemoveBackground(self) == self

\* the application is not part of SpecPipeline and SpecAlpha
AppIdle ==
    /\ main_pc = "idle"
    /\ files = <<>>
    /\ ld_i = 1
    /\ ld_log = <<>>
    /\ drawings_list = <<>>
    /\ fish_queue = <<>>
    /\ scanned_fish_queue = <<>>
    /\ watcher_pc = "not_started"
    /\ processed_files = {}
    /\ ev_log = <<>>
    /\ heap = <<>>
    /\ rng = 0
    /\ animate_pc = "idle"
    /\ away_log = <<>>
    /\ current_scene_index = 0
    /\ key_log = <<>>

NoFrame == [binary |-> {}, ink |-> <<0, 0, 0>>, paper |-> <<0, 0, 0>>]

AlphaIdle == rb_pc = "idle" /\ rb_frame = NoFrame /\ rb_steps = <<>> /\ rb_out = <<>>

RemoveBackground ==
    /\ rb_pc = "call"
    /\ rb_pc' = "returned"
    /\ rb_steps' = StepsRun(rb_frame.binary)
    /\ \E largest \in (IF rb_frame.binary = {} THEN {None}
                       ELSE LargestContours(rb_frame.binary)) :
          rb_out' = remove_background(scanner, rb_frame, largest)
    /\ scanner' = SelfAfterRemoveBackground(scanner)
    /\ UNCHANGED <<pipeVars, rb_frame, appVars>>

InitAlpha ==
    /\ scanner = SimpleScanner_init
    /\ detection = <<>>
    /\ pc = "idle"
    /\ scan_ret = NotScanned
    /\ trace = <<>>
    /\ ret = [kind |-> "pending"]
    /\ rb_pc = "call"
    /\ rb_frame \in Frames
    /\ rb_steps = <<>>
    /\ rb_out = <<>>
    /\ AppIdle

NextAlpha == RemoveBackground

SpecAlpha == InitAlpha /\ [][NextAlpha]_vars

----------------------------------------------------------------------------
(* Properties of remove_background (SpecAlpha) *)

Returned == rb_pc = "returned"

AlphaOf(px) == px[4]
ColourOf(px) == <<px[1], px[2], px[3]>>

\* C2: every pixel of the returned RGBA image has alpha 0 or 255, with and
\* without contours.
C2_AlphaIsBinary ==
    Returned => \A p \in Probes : AlphaOf(rb_out[p]) \in {0, 255}

\* a returned image with contours, an opaque pixel whose exclusion mask is
\* neither 0 nor 255, and a transparent pixel
C2_Witness ==
    /\ Returned
    /\ rb_frame.binary # {}
    /\ \E p \in Probes :
          /\ AlphaOf(rb_out[p]) = 255
          /\ CombinedMask(scanner, p) \notin {0, 255}
    /\ \E p \in Probes : AlphaOf(rb_out[p]) = 0

\* C3: in the returned image a pixel of alpha 0 has colour (0, 0, 0), and a
\* pixel of alpha 255 has the colour of the frame at that pixel.
C3_TransparentIsBlack ==
    Returned =>
        \A p \in Probes :
            /\ AlphaOf(rb_out[p]) = 0 => ColourOf(rb_out[p]) = <<0, 0, 0>>
            /\ AlphaOf(rb_out[p]) = 255 => ColourOf(rb_out[p]) = FrameColour(rb_frame, p)

C3_Witness ==
    /\ Returned
    /\ \E p \in Probes :
          AlphaOf(rb_out[p]) = 0 /\ FrameColour(rb_frame, p) = <<255, 255, 255>>
    /\ \E p \in Probes :
          AlphaOf(rb_out[p]) = 255 /\ FrameColour(rb_frame, p) = <<200, 30, 30>>

\* C4: when findContours finds nothing, remove_background returns an image
\* whose alpha is 0 at every pixel, and the largest-contour, marker-mask and
\* threshold steps are not run.
C4_NoContoursTransparent ==
    (Returned /\ rb_frame.binary = {}) =>
        /\ \A p \in Probes : rb_out[p] = <<0, 0, 0, 0>>
        /\ \A i \in DOMAIN rb_steps :
              rb_steps[i] \notin {"max", "drawContours", "marker_masks", "multiply", "threshold"}
        /\ rb_steps[Len(rb_steps)] = "set_opaque"

C4_Witness ==
    /\ Returned
    /\ rb_frame.binary = {}
    /\ rb_frame.paper = <<255, 255, 255>>

\* cv2.dilate(alpha, kernel, iterations=2)
dilate_iterations == 2

\* distance (in pixels, along the farther axis) from pixel p to region r
DistanceTo(p, r) ==
    Max({ r.x0 - p[1], p[1] - r.x1, r.y0 - p[2], p[2] - r.y1, 0 })

\* C11: with two or more separate contours and one of largest area, a pixel
\* of a smaller region that lies farther from the largest region than the
\* dilation reaches is transparent in the returned image.
C11_LargestContourOnly ==
    Returned =>
        \A L \in rb_frame.binary :
            (\A r \in rb_frame.binary \ {L} : ContourArea(r) < ContourArea(L)) =>
                \A p \in Probes :
                    ( /\ \E r \in rb_frame.binary \ {L} : InRect(p, r)
                      /\ DistanceTo(p, L) > dilate_iterations ) =>
                        rb_out[p] = <<0, 0, 0, 0>>

\* three regions of different areas: the square is kept, the stroke and the
\* single pixel are dropped
C11_Witness ==
    /\ Returned
    /\ Cardinality(rb_frame.binary) = 3
    /\ AlphaOf(rb_out[<<400, 300>>]) = 255
    /\ \E r \in rb_frame.binary : InRect(<<601, 301>>, r)
    /\ AlphaOf(rb_out[<<601, 301>>]) = 0
    /\ AlphaOf(rb_out[<<700, 500>>]) = 0

\* pixel p lies in the footprint at position m, inside the padding boundary
InsidePadding(p, m) ==
    /\ m[1] + padding <= p[1] /\ p[1] <= m[1] + marker_size - padding
    /\ m[2] + padding <= p[2] /\ p[2] <= m[2] + marker_size - padding

\* C12 (as claimed): no pixel of a marker footprint inside the padding
\* boundary has alpha 255 in the returned image.
C12_FootprintNeverOpaque ==
    Returned =>
        \A p \in Probes :
            (\E m \in marker_positions(scanner) : InsidePadding(p, m)) =>
                AlphaOf(rb_out[p]) # 255

----------------------------------------------------------------------------
(* scan_from_frame *)

\* remove_background's result as scan_from_frame sees it: an RGBA image of the
\* canonical size (its pixels are modelled under SpecAlpha)
RgbaOf(self, warped) ==
    [kind |-> "rgba", size |-> <<self.target_w, self.target_h>>, of |-> warped]

\* cv2 calls inside remove_background return, or raise cv2.error
RbOutcomes == {"image", "cv2.error"}

Pending == [kind |-> "pending"]
ReturnNone == [kind |-> "None"]
Raised(exc) == [kind |-> "exception", exc |-> exc]

\* scan_from_frame(frame, scanner) as one call: the detector's output for the
\* frame, the library's answer in scan (cv) and in remove_background (rb)
scan_from_frame(self, det, cv, rb) ==
    LET s == scan(self, det, cv)
    IN  IF s.raised = "ValueError" THEN ReturnNone
        ELSE IF s.raised # "none" THEN Raised(s.raised)
        ELSE IF rb = "cv2.error" THEN Raised("cv2.error")
        ELSE RgbaOf(self, s.warped)

\* processed_frame = scanner.scan(frame) inside try / except ValueError
PipelineScan ==
    /\ pc = "call"
    /\ \E cv \in ScanCv(scanner, detection) :
          LET s == scan(scanner, detection, cv)
          IN  /\ scan_ret' = s
              /\ scanner' = SelfAfterScan(scanner, s)
              /\ trace' = Append(trace, "scan")
              /\ IF s.raised = "ValueError"
                   THEN pc' = "returned" /\ ret' = ReturnNone
                 ELSE IF s.raised # "none"
                   THEN pc' = "raised" /\ ret' = Raised(s.raised)
                 ELSE pc' = "remove_background" /\ ret' = ret
    /\ UNCHANGED <<detection, alphaVars, appVars>>

\* processed_frame = scanner.remove_background(processed_frame); return
PipelineRemoveBackground ==
    /\ pc = "remove_background"
    /\ trace' = Append(trace, "remove_background")
    /\ \E rb \in RbOutcomes :
          IF rb = "cv2.error"
            THEN pc' = "raised" /\ ret' = Raised("cv2.error")
            ELSE pc' = "returned" /\ ret' = RgbaOf(scanner, scan_ret.warped)
    /\ scanner' = SelfAfterRemoveBackground(scanner)
    /\ UNCHANGED <<detection, scan_ret, alphaVars, appVars>>

InitPipeline ==
    /\ scanner = SimpleScanner_init
    /\ detection \in Detections
    /\ pc = "call"
    /\ scan_ret = NotScanned
    /\ trace = <<>>
    /\ ret = Pending
    /\ AlphaIdle
    /\ AppIdle

NextPipeline == PipelineScan \/ PipelineRemoveBackground

SpecPipeline == InitPipeline /\ [][NextPipeline]_vars

----------------------------------------------------------------------------
(* Properties of scan / scan_from_frame (SpecPipeline) *)

RequiredIds == {3, 1, 2, 4}

IdsIn(det) == { det[i].id : i \in DOMAIN det }

Scanned == pc # "call"

\* C1: when a required marker id (3, 1, 2, 4) is absent from the detection,
\* scan raises the markers-not-found ValueError, scan_from_frame returns None,
\* and remove_background is never called for the frame.
C1_MissingMarkerNoResult ==
    (Scanned /\ ~(RequiredIds \subseteq IdsIn(detection))) =>
        /\ scan_ret.raised = "ValueError"
        /\ scan_ret.msg = "Markers in the image are not found"
        /\ scan_ret.warped = NoImage
        /\ pc = "returned"
        /\ ret = ReturnNone
        /\ trace = <<"scan">>

C1_Witness ==
    /\ pc = "returned"
    /\ Cardinality(IdsIn(detection) \cap RequiredIds) = 3
    /\ ret = ReturnNone

\* C6 (as claimed): the destination rectangle is max(trunc(dist(br,bl)),
\* trunc(dist(tr,tl))) wide and max(trunc(dist(tr,br)), trunc(dist(tl,bl)))
\* high, and both are at least 1.
C6_SizeAtLeastOne ==
    (Scanned /\ scan_ret.rect # <<>>) =>
        LET tl == scan_ret.rect[1]
            tr == scan_ret.rect[2]
            br == scan_ret.rect[3]
            bl == scan_ret.rect[4]
            w == scan_ret.size[1]
            h == scan_ret.size[2]
        IN  /\ w \in {IntSqrt(SqDist(br, bl)), IntSqrt(SqDist(tr, tl))}
            /\ w >= IntSqrt(SqDist(br, bl)) /\ w >= IntSqrt(SqDist(tr, tl))
            /\ h \in {IntSqrt(SqDist(tr, br)), IntSqrt(SqDist(tl, bl))}
            /\ h >= IntSqrt(SqDist(tr, br)) /\ h >= IntSqrt(SqDist(tl, bl))
            /\ w >= 1
            /\ h >= 1

\* C7 (as claimed): with all four markers present and a degenerate quad, the
\* pipeline fails with an error, no rectified image is produced and no RGBA
\* result is returned.
C7_DegenerateFails ==
    (Scanned /\ scan_ret.rect # <<>> /\ Degenerate(scan_ret.rect)) =>
        /\ scan_ret.raised # "none"
        /\ scan_ret.warped = NoImage
        /\ ret.kind # "rgba"
        /\ pc # "remove_background"

\* the roles whose marker id is absent from a detection
MissingRoles(self, det) ==
    { r \in {"TopLeft", "TopRight", "BottomRight", "BottomLeft"} :
        LET id == CASE r = "TopLeft"     -> self.marker_top_left_id
                    [] r = "TopRight"    -> self.marker_top_right_id
                    [] r = "BottomRight" -> self.marker_bottom_right_id
                    [] r = "BottomLeft"  -> self.marker_bottom_left_id
        IN  id \notin IdsIn(det) }

\* the value a caller gets from a failed scan: the exception's type and args
FailureValue(s) == <<s.raised, s.msg>>

\* detections of at most one marker, to compare failures with
ShortDetections == { d \in Detections : Len(d) <= 1 }

\* C8 (as claimed): the failure raised for missing markers tells which roles
\* are missing: a detection missing other roles fails with another value.
C8_FailureNamesMissingRoles ==
    (Scanned /\ scan_ret.raised = "ValueError") =>
        \A d \in ShortDetections :
            MissingRoles(scanner, d) # MissingRoles(scanner, detection) =>
                FailureValue(scan(scanner, d, "image")) # FailureValue(scan_ret)

\* index of the first marker with this id (0 when there is none)
FirstIndex(det, id) ==
    IF id \in IdsIn(det)
    THEN CHOOSE i \in DOMAIN det :
            det[i].id = id /\ \A j \in DOMAIN det : det[j].id = id => i <= j
    ELSE 0

\* C9 (as claimed): with a required id detected more than once, scan fails or
\* takes the corner of the first detected instance of each id.
C9_FirstDuplicateUsed ==
    (Scanned /\ scan_ret.rect # <<>>) =>
        /\ scan_ret.rect[1] = IntPoint(detection[FirstIndex(detection, 3)].corners[1])
        /\ scan_ret.rect[2] = IntPoint(detection[FirstIndex(detection, 1)].corners[2])
        /\ scan_ret.rect[3] = IntPoint(detection[FirstIndex(detection, 2)].corners[3])
        /\ scan_ret.rect[4] = IntPoint(detection[FirstIndex(detection, 4)].corners[4])

\* the points vertex v of the markers with this id can give
VertexPoints(det, id, v) ==
    { IntPoint(det[i].corners[v]) : i \in { j \in DOMAIN det : det[j].id = id } }

\* C10: with ids 3, 1, 2 and 4 detected, the quad has one point per role:
\* vertex 0 of a marker 3 for TopLeft, vertex 1 of a marker 1 for TopRight,
\* vertex 2 of a marker 2 for BottomRight, vertex 3 of a marker 4 for
\* BottomLeft; no other marker contributes, and the scanner's id mapping is
\* what __init__ set.
C10_FixedRoleMapping ==
    /\ scanner = SimpleScanner_init
    /\ (Scanned /\ RequiredIds \subseteq IdsIn(detection)) =>
        /\ scan_ret.raised \in {"none", "cv2.error"}
        /\ scan_ret.rect # <<>>
        /\ Len(scan_ret.rect) = 4
        /\ scan_ret.rect[1] \in VertexPoints(detection, 3, 1)
        /\ scan_ret.rect[2] \in VertexPoints(detection, 1, 2)
        /\ scan_ret.rect[3] \in VertexPoints(detection, 2, 3)
        /\ scan_ret.rect[4] \in VertexPoints(detection, 4, 4)

C10_Witness ==
    /\ pc = "returned"
    /\ ret.kind = "rgba"
    /\ scan_ret.warped.valid
    /\ 0 \in IdsIn(detection)
    /\ Len(detection) = 5

----------------------------------------------------------------------------
(* ocean/drawingfish.py: DrawingFish                                        *)
(*                                                                          *)
(* Coordinates and velocities are in units of 0.001.  Only the x axis is    *)
(* kept: is_alive is decided by position[0] alone, and nothing reads the y  *)
(* axis, the rotation or the bubbles but the renderer.                      *)

\* self._left, self._right
fish_left == -1500
fish_right == 1500

\* the draws one DrawingFish makes from np.random: entry_direction =
\* randint(4); x = uniform(_left, _right); flip = randint(2); slight =
\* uniform(-0.01, 0.01); steps = randint(60, 180); speed = uniform(0.002,
\* 0.003) in _init_fish_velocity.  np.random's stream is a cycle of these
Draw(entry_direction, x, flip, slight, steps, speed) ==
    [entry_direction |-> entry_direction, x |-> x, flip |-> flip,
     slight |-> slight, steps |-> steps, speed |-> speed]

RandomStream ==
    << Draw(0, 0, 1, 0, 60, 2),        \* from the left
       Draw(2, 300, 1, 0, 60, 2),      \* from the top, not flipped
       Draw(1, 0, 0, 0, 61, 2),        \* from the right
       Draw(3, 300, 0, 5, 179, 2),     \* from the bottom, flipped, drifting right
       Draw(2, -305, 0, -5, 120, 2) >> \* from the top, flipped, drifting left

NextDraw(r) == RandomStream[r + 1]
AfterDraw(r) == (r + 1) % Len(RandomStream)

\* DrawingFish.__init__
DrawingFish_init(d) ==
    LET entered ==
            CASE d.entry_direction = 0 ->
                   [position_x |-> -2000, vector_x |-> 20, scale_x |-> 400]
              [] d.entry_direction = 1 ->
                   [position_x |-> 2000, vector_x |-> -20, scale_x |-> -400]
              [] d.entry_direction = 2 ->
                   [position_x |-> d.x, vector_x |-> 0, scale_x |-> 400]
              [] OTHER ->
                   [position_x |-> d.x, vector_x |-> 0, scale_x |-> 400]
        flipped == d.flip = 0 /\ d.entry_direction \in {2, 3}
    IN  [ is_alive        |-> TRUE,
          position_x      |-> entered.position_x,
          vector_x        |-> IF flipped THEN d.slight ELSE entered.vector_x,
          scale_x         |-> IF flipped THEN -entered.scale_x ELSE entered.scale_x,
          animation_stage |-> "init",
          init_animation_step |-> d.steps,
          speed           |-> d.speed ]

\* DrawingFish._init_fish_velocity
init_fish_velocity(self) ==
    [self EXCEPT !.vector_x = IF self.scale_x < 0 THEN -self.speed ELSE self.speed]

\* DrawingFish.animation
animation(self) ==
    LET moved == [self EXCEPT !.position_x = @ + self.vector_x]
    IN  CASE moved.animation_stage = "init" ->
               LET stepped == [moved EXCEPT !.init_animation_step = @ - 1]
               IN  IF stepped.init_animation_step = 0
                   THEN [init_fish_velocity(stepped) EXCEPT !.animation_stage = "swim"]
                   ELSE stepped
          [] moved.animation_stage = "swim" ->
               IF moved.position_x > fish_right
               THEN [moved EXCEPT !.vector_x = -@, !.position_x = fish_right - 10]
               ELSE IF moved.position_x < fish_left
               THEN [moved EXCEPT !.vector_x = -@, !.position_x = fish_left + 10]
               ELSE moved
          [] moved.animation_stage = "finish" ->
               IF \/ moved.position_x > fish_right + 1000
                  \/ moved.position_x < fish_left - 1000
               THEN [moved EXCEPT !.is_alive = FALSE]
               ELSE moved

\* DrawingFish.go_away
go_away(self) ==
    [self EXCEPT !.vector_x = @ * 2, !.animation_stage = "finish"]

\* the heap with one more object
Allocate(h, id, obj) ==
    [i \in DOMAIN h \cup {id} |-> IF i = id THEN obj ELSE h[i]]

----------------------------------------------------------------------------
(* The application: main, load_fish_from_files, PhotoHandler.on_created *)

\* what a photo file holds: nothing an image library can decode, or a photo
\* in which the detector finds these markers
Contents == {"unreadable", "blank", "three", "sheet", "folded"}

DetectionOf(content) ==
    CASE content = "blank"  -> <<>>
      [] content = "three"  -> << [id |-> 3, corners |-> QuadAt(0, 0, 5)],
                                  [id |-> 1, corners |-> QuadAt(5, 0, 5)],
                                  [id |-> 2, corners |-> QuadAt(5, 0, 5)] >>
      [] content = "sheet"  -> << [id |-> 3, corners |-> QuadAt(0, 0, 5)],
                                  [id |-> 1, corners |-> QuadAt(5, 0, 5)],
                                  [id |-> 2, corners |-> QuadAt(5, 0, 5)],
                                  [id |-> 4, corners |-> QuadAt(0, 0, 5)] >>
      [] content = "folded" -> << [id |-> 3, corners |-> QuadAt(5, 0, 5)],
                                  [id |-> 1, corners |-> QuadAt(0, 0, 5)],
                                  [id |-> 2, corners |-> QuadAt(0, 0, 5)],
                                  [id |-> 4, corners |-> QuadAt(5, 0, 5)] >>

File(ext, content) == [ext |-> ext, content |-> content]

\* the classes of the exceptions the model raises: all derive from Exception
ExceptionClasses == {"ValueError", "TypeError", "cv2.error", "UnidentifiedImageError"}

\* Image.open(...).convert('RGB') / cv2.imread(filename): the frame, None, or
\* an exception
ReadFrame(file) ==
    IF file.ext = "heic"
    THEN IF file.content = "unreadable"
         THEN Raised("UnidentifiedImageError") ELSE [kind |-> "frame"]
    ELSE IF file.content = "unreadable"
         THEN ReturnNone ELSE [kind |-> "frame"]

\* the body of the try block of load_fish_from_files and of on_created, up to
\* the value of scanned_fish: what it evaluates to, or the exception it raises
TryBody(self, file, cv, rb) ==
    LET frame == ReadFrame(file)
    IN  IF frame.kind = "exception" THEN frame
        ELSE IF frame.kind = "None" THEN [kind |-> "frame is None"]
        ELSE scan_from_frame(self, DetectionOf(file.content), cv, rb)

\* the scanner's fields after the try block ran on this file
SelfAfterTryBody(self, file, cv, rb) ==
    IF ReadFrame(file).kind # "frame" THEN self
    ELSE LET s == scan(self, DetectionOf(file.content), cv)
             after == SelfAfterScan(self, s)
         IN  IF s.raised # "none" THEN after ELSE SelfAfterRemoveBackground(after)

\* library answers possible while processing this file
CvFor(self, file) ==
    IF file.content = "unreadable" THEN {"image"}
    ELSE ScanCv(self, DetectionOf(file.content))

DrawingFish(texture, id) == [cls |-> "DrawingFish", id |-> id, texture |-> texture]

\* background_scenes of main
background_scenes ==
    << [type |-> "complex", name |-> "Ocean", background |-> ""],
       [type |-> "simple", name |-> "Scene 2", background |-> "ocean/images/scene2.jpg"],
       [type |-> "simple", name |-> "Scene 3", background |-> "ocean/images/scene3.webp"] >>

\* a sprite that is not a fish: DrawingStatic (create_back_layer) or
\* DrawingSeaweed, with the image of its texture
Sprite(cls, image) == [cls |-> cls, id |-> 0, texture |-> [kind |-> "file", name |-> image]]

\* draw_sails
draw_sails ==
    << Sprite("DrawingSeaweed", "sail_1.png"),
       Sprite("DrawingSeaweed", "sail_2.png"),
       Sprite("DrawingSeaweed", "sail_3.png") >>

\* the seven seaweeds draw_complex_ocean makes of one texture
SeaweedsOf(image) == [k \in 1..7 |-> Sprite("DrawingSeaweed", image)]

\* what draw_complex_ocean appends
draw_complex_ocean ==
    << Sprite("DrawingStatic", "back_down.png"),
       Sprite("DrawingStatic", "back_middle.png"),
       Sprite("DrawingStatic", "back_reef.png") >>
    \o draw_sails
    \o SeaweedsOf("seaweed_2.png") \o SeaweedsOf("seaweed_1.png") \o SeaweedsOf("seaweed_3.png")

\* what draw_simple_scene appends
draw_simple_scene(image_path) == << Sprite("DrawingStatic", image_path) >>

\* [d for d in drawings_list if isinstance(d, DrawingFish)]
fish_drawings(drawings) == SelectSeq(drawings, LAMBDA d : d.cls = "DrawingFish")

\* update_scene(drawings_list, scene_config): the list afterwards
update_scene_scene_only(drawings, scene_config) ==
    IF scene_config.type = "complex"
    THEN draw_complex_ocean
    ELSE draw_simple_scene(scene_config.background)

update_scene(drawings, scene_config) ==
    fish_drawings(drawings)
    \o (IF scene_config.type = "complex"
        THEN draw_complex_ocean
        ELSE draw_simple_scene(scene_config.background))

\* special keys of GLUT
SpecialKeys == {"GLUT_KEY_LEFT", "GLUT_KEY_RIGHT", "GLUT_KEY_UP"}

\* the index process_special_key moves to (Python's % is never negative for
\* a positive modulus)
NextSceneIndex(key, index) ==
    CASE key = "GLUT_KEY_LEFT"  -> (index - 1) % Len(background_scenes)
      [] key = "GLUT_KEY_RIGHT" -> (index + 1) % Len(background_scenes)
      [] OTHER                  -> index

\* the loader's `except Exception as e`
LoaderCatches_ValueError(exc) == exc = "ValueError"

LoaderCatches(exc) == exc \in ExceptionClasses

\* one iteration of the for loop of load_fish_from_files
LoadFish ==
    /\ main_pc = "loading"
    /\ ld_i <= Len(files)
    /\ LET file == files[ld_i]
       IN  \E cv \in CvFor(scanner, file), rb \in RbOutcomes :
             LET got == TryBody(scanner, file, cv, rb)
             IN  /\ scanner' = SelfAfterTryBody(scanner, file, cv, rb)
                 /\ IF got.kind = "exception" /\ ~LoaderCatches(got.exc)
                     THEN \* the exception leaves load_fish_from_files and main
                          /\ main_pc' = "aborted"
                          /\ UNCHANGED <<ld_i, ld_log, drawings_list, fish_queue, heap, rng>>
                     ELSE /\ main_pc' = main_pc
                          /\ ld_i' = ld_i + 1
                          /\ IF got.kind = "rgba"
                             THEN LET drawing == DrawingFish(got, ld_i)
                                  IN  /\ drawings_list' = Append(drawings_list, drawing)
                                      /\ fish_queue' = Append(fish_queue, drawing)
                                      /\ heap' = Allocate(heap, ld_i, DrawingFish_init(NextDraw(rng)))
                                      /\ rng' = AfterDraw(rng)
                                      /\ ld_log' = Append(ld_log, "fish")
                             ELSE /\ UNCHANGED <<drawings_list, fish_queue, heap, rng>>
                                  /\ ld_log' = Append(ld_log,
                                        CASE got.kind = "exception"     -> "error printed"
                                          [] got.kind = "frame is None" -> "unreadable"
                                          [] got.kind = "None"          -> "no fish")
    /\ UNCHANGED <<pipeVars, alphaVars, files, scanned_fish_queue,
                   watcher_pc, processed_files, ev_log, animate_pc, away_log, sceneVars>>

\* load_fish_from_files returns; main starts the watcher thread and the loop
StartWatcher ==
    /\ main_pc = "loading"
    /\ ld_i > Len(files)
    /\ main_pc' = "running"
    /\ watcher_pc' = "watching"
    /\ UNCHANGED <<scanner, pipeVars, alphaVars, files, ld_i, ld_log, drawings_list,
                   fish_queue, scanned_fish_queue, processed_files, ev_log,
                   oceanVars, sceneVars>>

\* paths of ./photos the watcher is told about
Paths == { [name |-> "a", ext |-> "jpg"], [name |-> "b", ext |-> "heic"],
           [name |-> "c", ext |-> "png"] }

\* file-system events: FileCreatedEvent or another event class
Events ==
    { [file_created |-> fc, src_path |-> path, content |-> c] :
        fc \in BOOLEAN, path \in Paths, c \in Contents }

\* on_created's `except Exception as e`
HandlerCatches(exc) == exc \in ExceptionClasses

\* PhotoHandler.on_created(event)
OnCreated ==
    /\ watcher_pc = "watching"
    /\ Len(ev_log) < MaxEvents
    /\ \E event \in Events :
         LET filename == event.src_path
             file == File(filename.ext, event.content)
         IN  IF ~event.file_created
             THEN /\ ev_log' = Append(ev_log, "not a created file")
                  /\ UNCHANGED <<scanner, watcher_pc, scanned_fish_queue, processed_files>>
             ELSE IF filename.ext \notin {"jpg", "heic"}
             THEN /\ ev_log' = Append(ev_log, "not a photo")
                  /\ UNCHANGED <<scanner, watcher_pc, scanned_fish_queue, processed_files>>
             ELSE IF filename \in processed_files
             THEN /\ ev_log' = Append(ev_log, "already processed")
                  /\ UNCHANGED <<scanner, watcher_pc, scanned_fish_queue, processed_files>>
             ELSE \E cv \in CvFor(scanner, file), rb \in RbOutcomes :
                    LET got == TryBody(scanner, file, cv, rb)
                    IN  /\ scanner' = SelfAfterTryBody(scanner, file, cv, rb)
                        /\ IF got.kind = "exception" /\ ~HandlerCatches(got.exc)
                            THEN \* the exception leaves on_created: the observer's
                                 \* dispatching thread ends
                                 /\ watcher_pc' = "dead"
                                 /\ UNCHANGED <<ev_log, scanned_fish_queue, processed_files>>
                            ELSE /\ watcher_pc' = watcher_pc
                                 /\ IF got.kind = "rgba"
                                    THEN /\ scanned_fish_queue' = Append(scanned_fish_queue, got)
                                         /\ processed_files' = processed_files \cup {filename}
                                         /\ ev_log' = Append(ev_log, "fish")
                                    ELSE /\ UNCHANGED <<scanned_fish_queue, processed_files>>
                                         /\ ev_log' = Append(ev_log,
                                               CASE got.kind = "exception"     -> "error printed"
                                                 [] got.kind = "frame is None" -> "unreadable"
                                                 [] got.kind = "None"          -> "no fish")
    /\ UNCHANGED <<pipeVars, alphaVars, main_pc, files, ld_i, ld_log,
                   drawings_list, fish_queue, oceanVars, sceneVars>>

\* jpg files first, then heic files, as the two globs are concatenated
StartupFiles ==
    { jpg \o heic :
        jpg  \in SeqsUpTo({ File("jpg", c) : c \in Contents }, MaxFiles),
        heic \in SeqsUpTo({ File("heic", c) : c \in Contents }, MaxFiles) }

Init ==
    /\ scanner = SimpleScanner_init
    /\ detection = <<>>
    /\ pc = "idle"
    /\ scan_ret = NotScanned
    /\ trace = <<>>
    /\ ret = Pending
    /\ AlphaIdle
    /\ main_pc = "loading"
    /\ files \in { f \in StartupFiles : Len(f) <= MaxFiles }
    /\ ld_i = 1
    /\ ld_log = <<>>
    /\ current_scene_index = 0
    /\ drawings_list = update_scene(<<>>, background_scenes[current_scene_index + 1])
    /\ fish_queue = <<>>
    /\ scanned_fish_queue = <<>>
    /\ watcher_pc = "not_started"
    /\ processed_files = {}
    /\ ev_log = <<>>
    /\ heap = <<>>
    /\ rng = 0
    /\ animate_pc = "idle"
    /\ away_log = <<>>
    /\ key_log = <<>>

\* process_special_key(key), called by the GLUT main loop
ProcessSpecialKey ==
    /\ main_pc = "running"
    /\ Len(key_log) < MaxKeys
    /\ \E key \in SpecialKeys :
          /\ key_log' = Append(key_log, [key |-> key, index |-> current_scene_index])
          /\ current_scene_index' = NextSceneIndex(key, current_scene_index)
          /\ IF key \in {"GLUT_KEY_LEFT", "GLUT_KEY_RIGHT"}
             THEN drawings_list' =
                     update_scene(drawings_list, background_scenes[current_scene_index' + 1])
             ELSE drawings_list' = drawings_list
    /\ UNCHANGED <<scanner, pipeVars, alphaVars, main_pc, files, ld_i, ld_log,
                   fish_queue, scanned_fish_queue, watcher_pc, processed_files,
                   ev_log, oceanVars>>

Next == LoadFish \/ StartWatcher \/ OnCreated

Spec == Init /\ [][Next]_vars

\* the application with the keyboard
NextScene == Next \/ ProcessSpecialKey

SpecScene == Init /\ [][NextScene]_vars

----------------------------------------------------------------------------
(* animate: the timer callback of create_animation_function *)

\* fish_limit of main
fish_limit == 10

\* renderer.animate(drawings_list): every drawing of the list runs its
\* animation(); sprites that are not fish have no state in the model
Renderer_animate(drawings, h) ==
    [i \in DOMAIN h |->
        IF \E k \in DOMAIN drawings :
              drawings[k].cls = "DrawingFish" /\ drawings[k].id = i
        THEN animation(h[i]) ELSE h[i]]

\* queue.Queue.get(): the item taken and the queue left
Queue_get_newest(q) == [item |-> q[Len(q)], rest |-> SubSeq(q, 1, Len(q) - 1)]

Queue_get(q) == [item |-> Head(q), rest |-> Tail(q)]

\* the id of the next DrawingFish object animate makes
NewId(h, fs) == Max(DOMAIN h \cup {Len(fs)}) + 1

\* list.remove(x): the list without its first element equal to x
ListRemove(list, x) ==
    LET j == CHOOSE j \in DOMAIN list :
                 /\ list[j].cls = x.cls /\ list[j].id = x.id
                 /\ \A k \in 1..(j - 1) : ~(list[k].cls = x.cls /\ list[k].id = x.id)
    IN  SubSeq(list, 1, j - 1) \o SubSeq(list, j + 1, Len(list))

\* for drawing in drawings_list: if isinstance(drawing, DrawingFish) and not
\* drawing.is_alive: drawings_list.remove(drawing) -- the list iterator is at
\* index i (from 1) of the list as it is now
RECURSIVE RemoveDeadLoop(_, _, _)
RemoveDeadLoop(list, h, i) ==
    IF i > Len(list) THEN list
    ELSE IF list[i].cls = "DrawingFish" /\ ~h[list[i].id].is_alive
    THEN RemoveDeadLoop(ListRemove(list, list[i]), h, i + 1)
    ELSE RemoveDeadLoop(list, h, i + 1)

\* animate(value)
Animate ==
    /\ main_pc = "running"
    /\ LET animated == Renderer_animate(drawings_list, heap)
           scanned  == Len(scanned_fish_queue) > 0
           id       == NewId(heap, files)
           drawing  == DrawingFish(Head(scanned_fish_queue), id)
           drawn    == IF scanned THEN Append(drawings_list, drawing) ELSE drawings_list
           queued   == IF scanned THEN Append(fish_queue, drawing) ELSE fish_queue
           made     == IF scanned
                       THEN Allocate(animated, id, DrawingFish_init(NextDraw(rng)))
                       ELSE animated
           over     == Len(queued) > fish_limit
           got      == Queue_get(queued)
           fish     == got.item
           left     == IF over THEN [made EXCEPT ![fish.id] = go_away(@)] ELSE made
       IN  /\ scanned_fish_queue' = IF scanned THEN Tail(scanned_fish_queue)
                                    ELSE scanned_fish_queue
           /\ rng' = IF scanned THEN AfterDraw(rng) ELSE rng
           /\ fish_queue' = IF over THEN got.rest ELSE queued
           /\ away_log' = IF over THEN Append(away_log, fish.id) ELSE away_log
           /\ heap' = left
           /\ drawings_list' = RemoveDeadLoop(drawn, left, 1)
    /\ animate_pc' = "returned"
    /\ UNCHANGED <<scanner, pipeVars, alphaVars, main_pc, files, ld_i, ld_log,
                   watcher_pc, processed_files, ev_log, sceneVars>>

\* a photo of the sheet, and its scan
SheetPhoto == File("jpg", "sheet")
SheetScan == TryBody(SimpleScanner_init, SheetPhoto, "image", "image")

\* the paths of the photos the watcher scanned, in order
PhotoPaths == << [name |-> "a", ext |-> "jpg"], [name |-> "b", ext |-> "heic"] >>

\* main when glutMainLoop starts: load_fish_from_files loaded n photos of
\* the sheet, the watcher queued m scans, and np.random started at r
OceanStart(n, m, r) ==
    /\ scanner = SimpleScanner_init
    /\ detection = <<>>
    /\ pc = "idle"
    /\ scan_ret = NotScanned
    /\ trace = <<>>
    /\ ret = Pending
    /\ AlphaIdle
    /\ main_pc = "running"
    /\ files = [i \in 1..n |-> SheetPhoto]
    /\ ld_i = n + 1
    /\ ld_log = [i \in 1..n |-> "fish"]
    /\ current_scene_index = 0
    /\ drawings_list = update_scene(<<>>, background_scenes[1])
                        \o [i \in 1..n |-> DrawingFish(SheetScan, i)]
    /\ fish_queue = [i \in 1..n |-> DrawingFish(SheetScan, i)]
    /\ scanned_fish_queue = [i \in 1..m |-> SheetScan]
    /\ watcher_pc = "watching"
    /\ processed_files = { PhotoPaths[i] : i \in 1..m }
    /\ ev_log = [i \in 1..m |-> "fish"]
    /\ heap = [i \in 1..n |->
                  DrawingFish_init(RandomStream[((r + i - 1) % Len(RandomStream)) + 1])]
    /\ rng = (r + n) % Len(RandomStream)
    /\ animate_pc = "idle"
    /\ away_log = <<>>
    /\ key_log = <<>>

InitOcean ==
    \E n \in 0..MaxLoaded, m \in 0..Min({MaxQueued, Len(PhotoPaths)}),
       r \in 0..(Len(RandomStream) - 1) :
        OceanStart(n, m, r)

NextOcean == Animate

SpecOcean == InitOcean /\ [][NextOcean]_vars

\* the ocean started with more photos than fish_limit and no scan waiting;
\* glutTimerFunc re-arms animate on every tick, so animate keeps running
InitGoAway ==
    \E n \in (fish_limit + 1)..MaxLoaded, r \in 0..(Len(RandomStream) - 1) :
        OceanStart(n, 0, r)

NextGoAway == Animate

SpecGoAway == InitGoAway /\ [][NextGoAway]_vars /\ WF_vars(Animate)

----------------------------------------------------------------------------
(* Properties of the application (Spec) *)

Failures == {"error printed", "unreadable", "no fish"}

FishIn(drawings) == SelectSeq(drawings, LAMBDA d : d.cls = "DrawingFish")

CountOf(log, what) == Cardinality({ i \in DOMAIN log : log[i] = what })

\* C5: a frame whose processing fails never aborts the process: the loader
\* is never left by an exception and has handled every file before its
\* position, on_created always returns to the observer, and every frame
\* that scans well, also after a failed one, yields its fish.
C5_BadFrameNeverAborts ==
    /\ main_pc # "aborted"
    /\ watcher_pc # "dead"
    /\ Len(ld_log) = ld_i - 1
    /\ main_pc = "running" => Len(ld_log) = Len(files)
    /\ Len(FishIn(drawings_list)) = CountOf(ld_log, "fish")
    /\ Len(scanned_fish_queue) = CountOf(ev_log, "fish")

\* the loader and the watcher each processed a good frame after a failed one
C5_Witness ==
    /\ main_pc = "running"
    /\ \E i, j \in DOMAIN ld_log :
          i < j /\ ld_log[i] = "error printed" /\ ld_log[j] = "fish"
    /\ \E i, j \in DOMAIN ev_log :
          i < j /\ ev_log[i] \in Failures /\ ev_log[j] = "fish"

\* processing this file alone on a new scanner can give this result
AloneResult(file, result) ==
    \E cv \in CvFor(SimpleScanner_init, file), rb \in RbOutcomes :
        result = TryBody(SimpleScanner_init, file, cv, rb)

----------------------------------------------------------------------------
(* Properties of animate and DrawingFish (SpecOcean) *)

Range(seq) == { seq[i] : i \in DOMAIN seq }

\* the ids of the fish objects in a list of drawings
FishIdsIn(drawings) == { d.id : d \in Range(FishIn(drawings)) }

\* the fish object id is dead and out of drawings_list
Removed(id) == ~heap[id].is_alive /\ id \notin FishIdsIn(drawings_list)

\* C14 (as claimed): every fish go_away was called on is eventually dead and
\* out of drawings_list, while animate keeps being called.  A removed fish
\* stays removed and go_away is called finitely often, so this is: from some
\* tick on, every fish go_away was called on is removed.
C14_GoAwayFishIsRemoved ==
    <>[](\A id \in Range(away_log) : Removed(id))

\* C15 (as claimed): after an animate tick, drawings_list holds at most
\* fish_limit fish.
C15_AtMostFishLimitDrawn ==
    animate_pc = "returned" => Len(FishIn(drawings_list)) <= fish_limit

\* C16 (as claimed): after an animate tick, no fish of drawings_list is dead.
C16_NoDeadFishAfterTick ==
    animate_pc = "returned" =>
        \A id \in FishIdsIn(drawings_list) : heap[id].is_alive

\* the least number of a set of numbers
Least(S) == CHOOSE v \in S : \A u \in S : v <= u

\* C17: a tick that finds more than fish_limit fish in fish_queue (after it
\* queued the fish it made) calls go_away on exactly one fish, the earliest
\* made among those not dismissed before; a tick that finds fewer calls it on
\* none; no fish is dismissed twice.
C17_OldestFishGoesAway ==
    [][ LET found == Len(fish_queue) + Cardinality(DOMAIN heap' \ DOMAIN heap)
            waiting == DOMAIN heap' \ Range(away_log)
        IN  IF found > fish_limit
            THEN /\ away_log' = Append(away_log, Least(waiting))
                 /\ heap'[Least(waiting)].animation_stage = "finish"
                 /\ FishIdsIn(fish_queue') = waiting \ {Least(waiting)}
            ELSE away_log' = away_log
    ]_vars

\* three fish were dismissed, the last the third loaded; a fish animate made
\* waits in fish_queue behind the loaded ones
C17_Witness ==
    /\ away_log = <<1, 2, 3>>
    /\ Len(fish_queue) = fish_limit
    /\ Len(files) = MaxLoaded
    /\ fish_queue[Len(fish_queue)].id = MaxLoaded + 1

----------------------------------------------------------------------------
(* Properties of update_scene and process_special_key (SpecScene) *)

NonFish(drawings) == SelectSeq(drawings, LAMBDA d : d.cls # "DrawingFish")

SceneIndexes == 0 .. (Len(background_scenes) - 1)

\* what draw_complex_ocean / draw_simple_scene draw for the scene at index
DrawingsOfScene(index) ==
    IF index = 0 THEN draw_complex_ocean
    ELSE draw_simple_scene(background_scenes[index + 1].background)

\* C18: a left or right arrow keeps the fish of drawings_list, in their
\* order and with their state, replaces the other drawings by the new
\* scene's, leaves fish_queue and scanned_fish_queue alone, keeps the index
\* within 0 .. len(background_scenes) - 1, and a left followed by a right
\* returns to the index before the left.
C18_SceneSwitchKeepsFish ==
    [][ key_log' # key_log =>
          LET pressed == key_log'[Len(key_log')]
          IN  /\ FishIn(drawings_list') = FishIn(drawings_list)
              /\ heap' = heap
              /\ fish_queue' = fish_queue
              /\ scanned_fish_queue' = scanned_fish_queue
              /\ current_scene_index' \in SceneIndexes
              /\ pressed.key \in {"GLUT_KEY_LEFT", "GLUT_KEY_RIGHT"} =>
                    NonFish(drawings_list') = DrawingsOfScene(current_scene_index')
              /\ ( /\ key_log # <<>>
                   /\ key_log[Len(key_log)].key = "GLUT_KEY_LEFT"
                   /\ pressed.key = "GLUT_KEY_RIGHT" ) =>
                    current_scene_index' = key_log[Len(key_log)].index
    ]_vars

\* a left then a right with a fish on screen and a scan waiting, from the
\* first scene (the left wraps to the last scene)
C18_Witness ==
    /\ Len(key_log) = 2
    /\ key_log[1] = [key |-> "GLUT_KEY_LEFT", index |-> 0]
    /\ key_log[2] = [key |-> "GLUT_KEY_RIGHT", index |-> 2]
    /\ current_scene_index = 0
    /\ Len(FishIn(drawings_list)) = 2
    /\ Len(scanned_fish_queue) = 1

====
